---- MODULE Spec2Model ----
(***************************************************************************)
(* Model of the calendar analysis engine of calendar-slack-analyzer:       *)
(* CalendarAnalyzer (src/calendar_analyzer.py) with the configuration it   *)
(* reads (src/config.py).                                                  *)
(*                                                                         *)
(* Durations are integers counting minutes (a timedelta is an exact        *)
(* integer count, so sums and differences are exact).  A parsed datetime   *)
(* is a record [day, hour, minute]; all datetimes of one run carry the     *)
(* same UTC offset.  A Python dict is a sequence of [key, val] records in  *)
(* insertion order, which is the order dict iteration and max()/min() see. *)
(* Text is a sequence of one-character strings.                            *)
(*                                                                         *)
(* Spec gives one call any list of at most MaxEvents events, each event    *)
(* drawn from Events as the loop reads it.  WeekSpec gives analyze_week    *)
(* up to MaxWeekEvents events of WeekEvents, UpcomingSpec gives            *)
(* summarize_upcoming_week up to MaxUpcoming events of UpcomingEvents, and *)
(* RunSpec is a run (as run_weekly_analysis of src/main.py) that keeps a   *)
(* past-week and an upcoming-week list and calls the analyzer on them any  *)
(* number of times in any order.  MainSpec is the process of src/main.py:  *)
(* main() with its arguments and environment, the scheduler loop, the two  *)
(* run functions step by step, and the report SlackReporter                *)
(* (src/slack_reporter.py) builds and posts.                               *)
(***************************************************************************)
EXTENDS Integers, Sequences, FiniteSets, TLC

VARIABLES
    pc,                  \* position of the caller / the running call
    config,              \* self.config of the analyzer
    events_len,          \* len(events) of the running call
    i,                   \* number of list elements the for loop has read
    event,               \* the loop variable of the running call
    daily_stats,         \* analyze_week local
    category_stats,      \* analyze_week local
    hourly_distribution, \* analyze_week local
    total_meeting_time,  \* analyze_week local
    working_hours_time,  \* analyze_week local
    after_hours_time,    \* analyze_week local
    daily_schedule,      \* summarize_upcoming_week local
    key_meetings,        \* summarize_upcoming_week local
    result,              \* value returned by the call
    raised,              \* TRUE when a call left through an exception
    cat_event,           \* argument of a direct _categorize_event call
    cat_result,          \* what that call produced
    past_week_events,    \* the list a run keeps to give to analyze_week
    upcoming_week_events, \* the list it keeps for summarize_upcoming_week
    past_week_analysis,  \* the result of analyze_week the run holds
    upcoming_week_summary, \* the result of summarize_upcoming_week it holds
    args,                \* the parsed command line of main
    environ,             \* os.environ as the process reads it
    openai,              \* the openai library and service as the process finds them
    main_pc,             \* position of main
    run_pc,              \* position of the running run function
    job,                 \* the run function that is running
    jobs,                \* the functions registered with schedule
    runs,                \* number of runs started
    slack,               \* the messages posted to Slack, oldest first
    report,              \* the blocks generate_weekly_report returned
    caught,              \* the step whose exception the run caught
    notified             \* send_error_notification calls of the run

vars == <<pc, config, events_len, i, event, daily_stats,
          category_stats, hourly_distribution, total_meeting_time,
          working_hours_time, after_hours_time, daily_schedule,
          key_meetings, result, raised, cat_event, cat_result,
          past_week_events, upcoming_week_events, past_week_analysis,
          upcoming_week_summary, args, environ, openai, main_pc, run_pc,
          job, jobs, runs, slack, report, caught, notified>>

-----------------------------------------------------------------------------
(* Bounds of the model *)

MaxEvents == 2
MaxAttendees == 11
MaxTextLen == 2
MaxWeekEvents == 26
MaxUpcoming == 5
MaxRunEvents == 2

(* Program constants *)

WORKING_HOURS_START == 9
WORKING_HOURS_END == 17
MAX_UPCOMING_EVENTS == 10
LargeMeetingOver == 10
TeamMeetingOver == 3
SmallMeetingSize == 2
HeavyWeekOver == 25
LightWeekUnder == 5
AfterHoursPctOver == 20
BusyDayOver == 6
KeyMeetingMinutesOver == 60
KeyMeetingAttendeesOver == 5
FocusDayMax == 2

-----------------------------------------------------------------------------
(* dict / defaultdict, as insertion-ordered sequences of [key, val] *)

EmptyDict == << >>

HasKey(d, k) == \E j \in 1..Len(d) : d[j].key = k

IndexOf(d, k) == CHOOSE j \in 1..Len(d) : d[j].key = k

DictGet(d, k, default) == IF HasKey(d, k) THEN d[IndexOf(d, k)].val ELSE default

DictPut(d, k, v) ==
    IF HasKey(d, k) THEN [d EXCEPT ![IndexOf(d, k)] = [key |-> k, val |-> v]]
    ELSE Append(d, [key |-> k, val |-> v])

\* a max() that returned the last of the greatest values
LastMaxIndex(values) ==
    CHOOSE j \in 1..Len(values) :
        /\ \A k \in 1..Len(values) : values[k] <= values[j]
        /\ \A k \in (j + 1)..Len(values) : values[k] < values[j]

\* max(items, key=...) over the keys' values in iteration order: the index
\* of the first value no other value exceeds
FirstMaxIndex(values) ==
    CHOOSE j \in 1..Len(values) :
        /\ \A k \in 1..Len(values) : values[k] <= values[j]
        /\ \A k \in 1..(j - 1) : values[k] < values[j]

\* min(items, key=...): the index of the first value no other value undercuts
FirstMinIndex(values) ==
    CHOOSE j \in 1..Len(values) :
        /\ \A k \in 1..Len(values) : values[k] >= values[j]
        /\ \A k \in 1..(j - 1) : values[k] > values[j]

-----------------------------------------------------------------------------
(* Event time data and its parsing *)

\* the value stored under event['start'] / event['end']
TimeData(key, ok, day, hour, minute) ==
    [key |-> key, ok |-> ok, day |-> day, hour |-> hour, minute |-> minute]

Timed(day, hour, minute) == TimeData("dateTime", TRUE, day, hour, minute)
AllDay(day) == TimeData("date", TRUE, day, 0, 0)
Unparseable == TimeData("dateTime", FALSE, 0, 0, 0)
NoTimeKey == TimeData("none", FALSE, 0, 0, 0)

ParseError == [exc |-> TRUE, day |-> 0, hour |-> 0, minute |-> 0]

Parsed(day, hour, minute) ==
    [exc |-> FALSE, day |-> day, hour |-> hour, minute |-> minute]

\* _parse_event_time(event[field]); event[field] itself raises KeyError
\* when the event has no such field
_parse_event_time(e, field) ==
    IF field \notin e.fields THEN ParseError
    ELSE LET td == IF field = "start" THEN e.start ELSE e.end IN
         IF td.key = "dateTime"
         THEN IF td.ok THEN Parsed(td.day, td.hour, td.minute) ELSE ParseError
         ELSE IF td.key = "date"
         THEN IF td.ok THEN Parsed(td.day, 0, 0) ELSE ParseError
         ELSE ParseError

\* minutes since the start of day 0
Instant(t) == t.day * 1440 + t.hour * 60 + t.minute

\* _calculate_duration: end - start, timedelta(0) on any exception
_calculate_duration(e) ==
    LET start_time == _parse_event_time(e, "start")
        end_time == _parse_event_time(e, "end")
    IN IF start_time.exc \/ end_time.exc THEN 0
       ELSE Instant(end_time) - Instant(start_time)

\* _is_working_hours with the end hour taken as inside the interval
IsWorkingHoursClosed(cfg, event_start) ==
    /\ cfg.working_hours_start <= event_start.hour
    /\ event_start.hour <= cfg.working_hours_end

\* _is_working_hours
_is_working_hours(cfg, event_start) ==
    /\ cfg.working_hours_start <= event_start.hour
    /\ event_start.hour < cfg.working_hours_end

WeekdayNames ==
    <<"Monday", "Tuesday", "Wednesday", "Thursday", "Friday", "Saturday",
      "Sunday">>

\* start_time.strftime('%A'); day 0 is a Monday
Weekday(t) == WeekdayNames[(t.day % 7) + 1]

-----------------------------------------------------------------------------
(* Categorisation *)

\* str.lower() on the characters the model's texts are written with
LowerChar(c) == IF c = "S" THEN "s" ELSE IF c = "R" THEN "r" ELSE c

Lower(text) == [j \in 1..Len(text) |-> LowerChar(text[j])]

\* `keyword in text`
IsSubstring(keyword, text) ==
    \E j \in 0..(Len(text) - Len(keyword)) :
        SubSeq(text, j + 1, j + Len(keyword)) = keyword

\* f"{title} {description}" of the lower-cased summary and description
text_to_analyze(e) == Lower(e.summary) \o <<" ">> \o Lower(e.description)

\* any(keyword in text_to_analyze for keyword in keywords)
AnyKeyword(keywords, text) ==
    \E j \in 1..Len(keywords) : IsSubstring(keywords[j], text)

\* the attendee-count branch with the team threshold off by one
AttendeeCategoryFromThree(n) ==
    IF n > LargeMeetingOver THEN "large_meeting"
    ELSE IF n >= TeamMeetingOver THEN "team_meeting"
    ELSE IF n = SmallMeetingSize THEN "small_meeting"
    ELSE "other"

\* the attendee-count branch of _categorize_event
AttendeeCategory(n) ==
    IF n > LargeMeetingOver THEN "large_meeting"
    ELSE IF n > TeamMeetingOver THEN "team_meeting"
    ELSE IF n = SmallMeetingSize THEN "small_meeting"
    ELSE "other"

CategoryResult(exc, category) == [exc |-> exc, category |-> category]

\* _categorize_event with the attendee-count branch tried before the
\* keywords for large meetings
CategorizeSizeFirst(cfg, e) ==
    IF ~cfg.meeting_keywords.present THEN CategoryResult(TRUE, "")
    ELSE LET items == cfg.meeting_keywords.items
             text == text_to_analyze(e)
             hits == {j \in 1..Len(items) : AnyKeyword(items[j].val, text)}
         IN IF e.attendees > LargeMeetingOver
            THEN CategoryResult(FALSE, "large_meeting")
            ELSE IF hits # {}
            THEN CategoryResult(FALSE,
                     items[CHOOSE j \in hits : \A k \in hits : j <= k].key)
            ELSE CategoryResult(FALSE, AttendeeCategory(e.attendees))

\* _categorize_event: the first category, in the order of
\* config.meeting_keywords, with a keyword in the text; the attendee branch
\* when there is none; AttributeError when the configuration has no
\* meeting_keywords
_categorize_event(cfg, e) ==
    IF ~cfg.meeting_keywords.present THEN CategoryResult(TRUE, "")
    ELSE LET items == cfg.meeting_keywords.items
             text == text_to_analyze(e)
             hits == {j \in 1..Len(items) : AnyKeyword(items[j].val, text)}
         IN IF hits # {}
            THEN CategoryResult(FALSE,
                     items[CHOOSE j \in hits : \A k \in hits : j <= k].key)
            ELSE CategoryResult(FALSE, AttendeeCategory(e.attendees))

-----------------------------------------------------------------------------
(* analyze_week *)

NewDayStat == [events |-> 0, meeting_time |-> 0, categories |-> EmptyDict]

NewCategoryStat == [count |-> 0, total_time |-> 0]

\* how the body of the for loop of analyze_week ends for one event
AnalyzeOutcome(cfg, e) ==
    IF e.status = "cancelled" THEN "cancelled"
    ELSE IF ~cfg.include_private_events /\ e.visibility = "private"
    THEN "private"
    ELSE IF _parse_event_time(e, "start").exc THEN "exception"
    ELSE IF _categorize_event(cfg, e).exc THEN "exception"
    ELSE "aggregated"

\* analyze_week without its except clause
AnalyzeNoExcept(out) == out

\* the except clause around the loop body of analyze_week: log a warning
\* and continue
AnalyzeExcept(out) == IF out = "exception" THEN "continue" ELSE out

\* daily_stats after the event has been counted in it
AddDaily(stats, day_key, duration, category) ==
    LET old == DictGet(stats, day_key, NewDayStat) IN
    DictPut(stats, day_key,
        [events |-> old.events + 1,
         meeting_time |-> old.meeting_time + duration,
         categories |-> DictPut(old.categories, category,
                            DictGet(old.categories, category, 0) + 1)])

\* category_stats with the event counted and its duration left out
AddCategoryCountOnly(stats, category, duration) ==
    LET old == DictGet(stats, category, NewCategoryStat) IN
    DictPut(stats, category,
        [count |-> old.count + 1, total_time |-> old.total_time])

\* category_stats after the event has been counted in it
AddCategory(stats, category, duration) ==
    LET old == DictGet(stats, category, NewCategoryStat) IN
    DictPut(stats, category,
        [count |-> old.count + 1, total_time |-> old.total_time + duration])

\* hourly_distribution after the event has been counted in it
AddHour(dist, hour) == DictPut(dist, hour, DictGet(dist, hour, 0) + 1)

\* one entry of the insight list: which note, and the day or category name,
\* the hour and the count or percentage its text is formatted from
Insight(note, name, hour, number) ==
    [note |-> note, name |-> name, hour |-> hour, number |-> number]

\* the values max() and min() compare: the key=lambda of each call
EventsOf(dstats) == [j \in 1..Len(dstats) |-> dstats[j].val.events]
CountOf(cstats) == [j \in 1..Len(cstats) |-> cstats[j].val.count]
ValueOf(dist) == [j \in 1..Len(dist) |-> dist[j].val]

\* f"{after_hours_percentage:.1f}", in tenths of a percent: the quotient
\* rounded to the nearest tenth.  Where the exact quotient lies halfway
\* between two tenths the text has the tenth the double falls nearer to,
\* which is one of the two neighbours; this is the upper one.
PercentTenths(after, total) == (2000 * after + total) \div (2 * total)

\* the load note with the heavy week starting at the threshold itself
LoadInsightFromThreshold(total_events) ==
    IF total_events >= HeavyWeekOver THEN <<Insight("heavy_week", "", 0, 0)>>
    ELSE IF total_events < LightWeekUnder THEN <<Insight("light_week", "", 0, 0)>>
    ELSE << >>

LoadInsight(total_events) ==
    IF total_events > HeavyWeekOver THEN <<Insight("heavy_week", "", 0, 0)>>
    ELSE IF total_events < LightWeekUnder THEN <<Insight("light_week", "", 0, 0)>>
    ELSE << >>

\* the after-hours note with the threshold percentage itself noted
BalanceInsightFromThreshold(working, after) ==
    LET total_time == working + after IN
    IF total_time > 0 /\ after * 100 >= AfterHoursPctOver * total_time
    THEN <<Insight("after_hours", "", 0,
                 PercentTenths(after, total_time))>>
    ELSE << >>

BalanceInsight(working, after) ==
    LET total_time == working + after IN
    IF total_time > 0 /\ after * 100 > AfterHoursPctOver * total_time
    THEN <<Insight("after_hours", "", 0,
                 PercentTenths(after, total_time))>>
    ELSE << >>

TypeInsight(cstats) ==
    IF cstats # EmptyDict
    THEN LET top == cstats[FirstMaxIndex(CountOf(cstats))] IN
         <<Insight("top_category", top.key, 0, top.val.count)>>
    ELSE << >>

\* the busiest-day note with a day of BusyDayOver events noted
BusyDayInsightFromThreshold(dstats) ==
    IF dstats # EmptyDict
    THEN LET busiest == dstats[FirstMaxIndex(EventsOf(dstats))] IN
         IF busiest.val.events >= BusyDayOver
         THEN <<Insight("busiest_day", busiest.key, 0, busiest.val.events)>>
         ELSE << >>
    ELSE << >>

BusyDayInsight(dstats) ==
    IF dstats # EmptyDict
    THEN LET busiest == dstats[FirstMaxIndex(EventsOf(dstats))] IN
         IF busiest.val.events > BusyDayOver
         THEN <<Insight("busiest_day", busiest.key, 0, busiest.val.events)>>
         ELSE << >>
    ELSE << >>

PeakHourInsight(dist) ==
    IF dist # EmptyDict
    THEN LET peak == dist[FirstMaxIndex(ValueOf(dist))] IN
         <<Insight("peak_hour", "", peak.key, peak.val)>>
    ELSE << >>

\* the insights with the busiest day noted before the top category
GenerateInsightsDayFirst(total_events, dstats, cstats, working, after, dist) ==
    LoadInsight(total_events) \o BalanceInsight(working, after)
        \o BusyDayInsight(dstats) \o TypeInsight(cstats)
        \o PeakHourInsight(dist)

\* _generate_insights
_generate_insights(total_events, dstats, cstats, working, after, dist) ==
    LoadInsight(total_events) \o BalanceInsight(working, after)
        \o TypeInsight(cstats) \o BusyDayInsight(dstats)
        \o PeakHourInsight(dist)

\* _identify_patterns
_identify_patterns(dstats, cstats) ==
    LET daily == IF dstats # EmptyDict
                 THEN LET b == dstats[FirstMaxIndex(EventsOf(dstats))]
                          l == dstats[FirstMinIndex(EventsOf(dstats))]
                      IN <<[key |-> "busiest_day",
                            val |-> <<b.key, b.val.events>>],
                           [key |-> "lightest_day",
                            val |-> <<l.key, l.val.events>>]>>
                 ELSE << >>
        types == IF cstats # EmptyDict
                 THEN <<[key |-> "dominant_meeting_type",
                         val |-> <<cstats[FirstMaxIndex(CountOf(cstats))].key>>]>>
                 ELSE << >>
    IN daily \o types

\* the dict analyze_week returns for `if not events`
EmptyAnalysis ==
    [total_events |-> 0,
     total_meeting_time |-> 0,
     daily_breakdown |-> EmptyDict,
     category_breakdown |-> EmptyDict,
     time_usage |-> EmptyDict,
     patterns |-> EmptyDict,
     insights |-> << >>]

\* the dict analyze_week returns after the loop
Analysis(n, total, working, after, dstats, cstats, dist) ==
    [period |-> "start_date to end_date",
     total_events |-> n,
     total_meeting_time |-> total,
     working_hours_time |-> working,
     after_hours_time |-> after,
     daily_breakdown |-> dstats,
     category_breakdown |-> cstats,
     hourly_distribution |-> dist,
     patterns |-> _identify_patterns(dstats, cstats),
     insights |-> _generate_insights(n, dstats, cstats, working, after, dist)]

-----------------------------------------------------------------------------
(* summarize_upcoming_week *)

\* start_time.strftime('%A, %B %d')
DayLabel(t) == <<Weekday(t), t.day>>

\* start_time.strftime('%H:%M')
TimeStr(t) == <<t.hour, t.minute>>

\* str(duration).split('.')[0]: whole days (negative for a negative
\* timedelta), then hours and minutes of the non-negative remainder
DurationStr(d) ==
    [days |-> d \div 1440,
     hours |-> (d % 1440) \div 60,
     minutes |-> d % 60]

\* event.get('summary', 'No title')
Title(e) == IF e.summary = << >> THEN <<"No title">> ELSE e.summary

\* the loop body with the privacy filter of analyze_week copied into it
SummarizeOutcomeFiltered(e) ==
    IF e.status = "cancelled" \/ e.visibility = "private" THEN "cancelled"
    ELSE IF _parse_event_time(e, "start").exc THEN "exception"
    ELSE "scheduled"

\* how the body of the for loop of summarize_upcoming_week ends
SummarizeOutcome(e) ==
    IF e.status = "cancelled" THEN "cancelled"
    ELSE IF _parse_event_time(e, "start").exc THEN "exception"
    ELSE "scheduled"

\* the except clause around the loop body of summarize_upcoming_week
SummarizeExcept(out) == IF out = "exception" THEN "continue" ELSE out

EventInfo(e) ==
    LET start_time == _parse_event_time(e, "start") IN
    [title |-> Title(e),
     time |-> TimeStr(start_time),
     duration |-> DurationStr(_calculate_duration(e)),
     attendees_count |-> e.attendees]

\* the key-meeting test with a meeting of the threshold duration flagged
IsKeyMeetingFromThreshold(e) ==
    \/ _calculate_duration(e) >= KeyMeetingMinutesOver
    \/ e.attendees > KeyMeetingAttendeesOver

IsKeyMeeting(e) ==
    \/ _calculate_duration(e) > KeyMeetingMinutesOver
    \/ e.attendees > KeyMeetingAttendeesOver

KeyMeeting(e) ==
    LET start_time == _parse_event_time(e, "start") IN
    [title |-> Title(e),
     day |-> DayLabel(start_time),
     time |-> TimeStr(start_time),
     reason |-> IF _calculate_duration(e) > KeyMeetingMinutesOver
                THEN "Long duration" ELSE "Many attendees"]

\* the agenda with the entry put at the head of its day
AddAgendaFirst(schedule, day_key, info) ==
    DictPut(schedule, day_key, <<info>> \o DictGet(schedule, day_key, << >>))

\* daily_schedule[day_key].append(event_info)
AddAgenda(schedule, day_key, info) ==
    DictPut(schedule, day_key, Append(DictGet(schedule, day_key, << >>), info))

\* the focus days with the day of FocusDayMax meetings left out
FocusOpportunitiesUnder(schedule) ==
    LET Opp(j) == <<schedule[j].key, Len(schedule[j].val)>>
        F[j \in 0..Len(schedule)] ==
            IF j = 0 THEN << >>
            ELSE IF Len(schedule[j].val) < FocusDayMax
                 THEN Append(F[j - 1], Opp(j))
                 ELSE F[j - 1]
    IN F[Len(schedule)]

\* the f-string of a day with at most FocusDayMax meetings, as <<day, count>>,
\* for each such day of daily_schedule.items()
FocusOpportunities(schedule) ==
    LET Opp(j) == <<schedule[j].key, Len(schedule[j].val)>>
        F[j \in 0..Len(schedule)] ==
            IF j = 0 THEN << >>
            ELSE IF Len(schedule[j].val) <= FocusDayMax
                 THEN Append(F[j - 1], Opp(j))
                 ELSE F[j - 1]
    IN F[Len(schedule)]

\* a slice that kept the last n entries
LastEntries(list, n) ==
    SubSeq(list, IF n < Len(list) THEN Len(list) - n + 1 ELSE 1, Len(list))

\* key_meetings[:n], n >= 0
Prefix(list, n) == SubSeq(list, 1, IF n < Len(list) THEN n ELSE Len(list))

\* the dict summarize_upcoming_week returns for `if not events`
EmptySummary ==
    [total_events |-> 0,
     daily_schedule |-> EmptyDict,
     key_meetings |-> << >>,
     focus_opportunities |-> << >>]

\* the dict summarize_upcoming_week returns after the loop
Summary(cfg, n, schedule, meetings) ==
    [period |-> "start_date to end_date",
     total_events |-> n,
     daily_schedule |-> schedule,
     key_meetings |-> Prefix(meetings, cfg.max_upcoming_events),
     focus_opportunities |-> FocusOpportunities(schedule)]

-----------------------------------------------------------------------------
(* Inputs *)

\* an event record of the calendar API, with the fields the analyzer reads;
\* `fields` says which of 'start' and 'end' the record has
Event(status, visibility, fields, start, end, summary, description, attendees) ==
    [status |-> status, visibility |-> visibility, fields |-> fields,
     start |-> IF "start" \in fields THEN start ELSE NoTimeKey,
     end |-> IF "end" \in fields THEN end ELSE NoTimeKey,
     summary |-> summary, description |-> description,
     attendees |-> attendees]

NoEvent == Event("none", "none", {}, NoTimeKey, NoTimeKey, << >>, << >>, 0)

Statuses == {"confirmed", "cancelled"}
Visibilities == {"default", "private"}
FieldSets == {{"start", "end"}, {"start"}, {"end"}, {}}
Starts == {Timed(0, 9, 0), Timed(1, 17, 0), AllDay(1), Unparseable, NoTimeKey}
Ends == {Timed(0, 10, 0), Timed(1, 18, 0)}

\* <<summary, attendee count>> of the events of a batch
Subjects == {<<(<<"S">>), 2>>, <<(<< >>), 4>>}

Events ==
    {Event(st, vi, fs, s, e, sub[1], << >>, sub[2]) :
        st \in Statuses, vi \in Visibilities, fs \in FieldSets,
        s \in Starts, e \in Ends, sub \in Subjects}

Chars == {"s", "S", "r", "x"}

Texts(n) == UNION {[1..k -> Chars] : k \in 0..n}

\* the events _categorize_event is called on directly
CatEvents ==
    {Event("confirmed", "default", {"start", "end"}, Timed(0, 9, 0),
           Timed(0, 10, 0), summary, description, attendees) :
        summary \in Texts(MaxTextLen),
        description \in {<< >>, <<"R">>, <<"x">>},
        attendees \in 0..MaxAttendees}

\* config.meeting_keywords: absent from the object (as in Config of
\* src/config.py), or a dict of category -> keyword list
NoKeywords == [present |-> FALSE, items |-> EmptyDict]

Keywords(items) == [present |-> TRUE, items |-> items]

StandupFirst ==
    Keywords(<<[key |-> "standup", val |-> <<(<<"s">>)>>],
               [key |-> "review", val |-> <<(<<"r">>)>>]>>)

ReviewFirst ==
    Keywords(<<[key |-> "review", val |-> <<(<<"r">>), (<<"x", "x">>)>>],
               [key |-> "standup", val |-> <<(<<"s">>)>>]>>)

Config(include_private, keywords) ==
    [include_private_events |-> include_private,
     meeting_keywords |-> keywords,
     working_hours_start |-> WORKING_HOURS_START,
     working_hours_end |-> WORKING_HOURS_END,
     max_upcoming_events |-> MAX_UPCOMING_EVENTS]

\* the configurations of the model: private events excluded (the default)
\* with each keyword setting, and private events included
Configs ==
    {Config(FALSE, StandupFirst), Config(FALSE, ReviewFirst),
     Config(FALSE, NoKeywords), Config(TRUE, StandupFirst)}

-----------------------------------------------------------------------------
(* The analyzer and its two calls *)

NoResult == [total_events |-> -1]

Locals ==
    /\ events_len = 0
    /\ i = 0
    /\ event = NoEvent
    /\ daily_stats = EmptyDict
    /\ category_stats = EmptyDict
    /\ hourly_distribution = EmptyDict
    /\ total_meeting_time = 0
    /\ working_hours_time = 0
    /\ after_hours_time = 0
    /\ daily_schedule = EmptyDict
    /\ key_meetings = << >>

analyzeLocals ==
    <<daily_stats, category_stats, hourly_distribution, total_meeting_time,
      working_hours_time, after_hours_time>>

summarizeLocals == <<daily_schedule, key_meetings>>

catVars == <<cat_event, cat_result>>

runVars ==
    <<past_week_events, upcoming_week_events, past_week_analysis,
      upcoming_week_summary>>

mainVars ==
    <<args, environ, openai, main_pc, run_pc, job, jobs, runs, slack, report,
      caught, notified>>

\* Python's None
None == "None"

NoReport == [exc |-> FALSE, blocks |-> << >>]

\* no run function is running: its locals do not exist
NoRun ==
    /\ run_pc = "idle"
    /\ job = None
    /\ report = NoReport
    /\ caught = None
    /\ notified = 0

\* main has not been entered: the analyzer is used on its own
NoMain ==
    /\ args = [run_now |-> FALSE, test_only |-> FALSE]
    /\ environ = [SLACK_BOT_TOKEN |-> None, RUN_IMMEDIATELY |-> None,
                  OPENAI_API_KEY |-> None, AI_CATEGORIZATION_ENABLED |-> None,
                  WRITTEN_SUMMARY_ENABLED |-> None]
    /\ openai = "not_installed"
    /\ main_pc = "not_entered"
    /\ jobs = {}
    /\ runs = 0
    /\ slack = << >>
    /\ NoRun

\* a Config object, one of `configs`, exists, no analyzer yet; the calendar
\* holds two of `lists` for the run to fetch (the empty list where the events
\* of a call are drawn one at a time as the loop reads them)
AnalyzerInit(configs, lists) ==
    /\ pc = "new"
    /\ config \in configs
    /\ past_week_events \in lists
    /\ upcoming_week_events \in lists
    /\ past_week_analysis = NoResult
    /\ upcoming_week_summary = NoResult
    /\ Locals
    /\ result = NoResult
    /\ raised = FALSE
    /\ cat_event = NoEvent
    /\ cat_result = CategoryResult(FALSE, "")

\* the analyzer on its own, main not entered
InitWith(configs, lists) == AnalyzerInit(configs, lists) /\ NoMain

Init == InitWith(Configs, {<< >>})

\* CalendarAnalyzer.__init__: keeps the configuration and authenticates;
\* _authenticate raises when the credentials cannot be had
Construct ==
    /\ pc = "new"
    /\ \E auth_ok \in BOOLEAN :
        IF auth_ok THEN pc' = "ready" /\ raised' = FALSE
        ELSE pc' = "construct_raised" /\ raised' = TRUE
    /\ UNCHANGED <<mainVars, runVars, config, events_len, i, event,
                   analyzeLocals,
                   summarizeLocals, result, catVars>>

\* the accumulators of analyze_week as they are
AnalyzeLocalsNow ==
    [daily_stats |-> daily_stats,
     category_stats |-> category_stats,
     hourly_distribution |-> hourly_distribution,
     total_meeting_time |-> total_meeting_time,
     working_hours_time |-> working_hours_time,
     after_hours_time |-> after_hours_time]

\* the accumulators of summarize_upcoming_week as they are
SummarizeLocalsNow ==
    [daily_schedule |-> daily_schedule, key_meetings |-> key_meetings]

\* the accumulators after the loop body of analyze_week has counted event e
Aggregate(cfg, acc, e) ==
    LET start_time == _parse_event_time(e, "start")
        duration == _calculate_duration(e)
        category == _categorize_event(cfg, e).category
        working == _is_working_hours(cfg, start_time)
    IN [daily_stats |->
            AddDaily(acc.daily_stats, Weekday(start_time), duration, category),
        category_stats |-> AddCategory(acc.category_stats, category, duration),
        hourly_distribution |->
            AddHour(acc.hourly_distribution, start_time.hour),
        total_meeting_time |-> acc.total_meeting_time + duration,
        working_hours_time |->
            acc.working_hours_time + (IF working THEN duration ELSE 0),
        after_hours_time |->
            acc.after_hours_time + (IF working THEN 0 ELSE duration)]

\* the accumulators after the loop body of summarize_upcoming_week has put
\* event e on the agenda
Schedule(acc, e) ==
    [daily_schedule |->
        AddAgenda(acc.daily_schedule,
                  DayLabel(_parse_event_time(e, "start")), EventInfo(e)),
     key_meetings |->
        IF IsKeyMeeting(e) THEN Append(acc.key_meetings, KeyMeeting(e))
        ELSE acc.key_meetings]

\* the accumulators of analyze_week after one pass of its loop over event e
AfterAnalyzed(cfg, acc, e) ==
    IF AnalyzeExcept(AnalyzeOutcome(cfg, e)) = "aggregated"
    THEN Aggregate(cfg, acc, e)
    ELSE acc

\* the accumulators of summarize_upcoming_week after one pass of its loop
\* over event e
AfterSummarized(acc, e) ==
    IF SummarizeExcept(SummarizeOutcome(e)) = "scheduled"
    THEN Schedule(acc, e)
    ELSE acc

\* accumulators of analyze_week that were attributes of the analyzer, set up
\* at its construction and never again
StaleAnalyzeLocals == AnalyzeLocalsNow

\* the key meetings and the agenda as attributes of the analyzer
StaleSummarizeLocals == SummarizeLocalsNow

\* the accumulators summarize_upcoming_week creates before its loop
NewSummarizeLocals == [daily_schedule |-> EmptyDict, key_meetings |-> << >>]

\* the accumulators analyze_week creates before its loop
NewAnalyzeLocals ==
    [daily_stats |-> EmptyDict,
     category_stats |-> EmptyDict,
     hourly_distribution |-> EmptyDict,
     total_meeting_time |-> 0,
     working_hours_time |-> 0,
     after_hours_time |-> 0]

\* analyze_week is entered with a list whose length is one of `lengths`, in
\* a frame of its own: the empty list returns at once, any other starts the
\* loop
AnalyzeCallOf(lengths) ==
    /\ pc = "ready"
    /\ \E n \in lengths :
        /\ events_len' = n
        /\ IF n = 0
           THEN pc' = "analyzed" /\ result' = EmptyAnalysis
           ELSE pc' = "analyzing" /\ result' = result
    /\ i' = 0
    /\ event' = NoEvent
    /\ LET new == NewAnalyzeLocals
       IN /\ daily_stats' = new.daily_stats
          /\ category_stats' = new.category_stats
          /\ hourly_distribution' = new.hourly_distribution
          /\ total_meeting_time' = new.total_meeting_time
          /\ working_hours_time' = new.working_hours_time
          /\ after_hours_time' = new.after_hours_time
    /\ UNCHANGED <<mainVars, runVars, config, summarizeLocals, raised,
                   catVars>>

\* analyze_week called with any list of at most MaxEvents events
AnalyzeCall == AnalyzeCallOf(0..MaxEvents)

\* one pass of the for loop of analyze_week over the next event of the
\* list, which is one of `next_events`
AnalyzeStepOn(next_events) ==
    /\ pc = "analyzing"
    /\ i < events_len
    /\ \E e \in next_events :
      \E new \in {AfterAnalyzed(config, AnalyzeLocalsNow, e)} :
        /\ event' = e
        /\ i' = i + 1
        /\ daily_stats' = new.daily_stats
        /\ category_stats' = new.category_stats
        /\ hourly_distribution' = new.hourly_distribution
        /\ total_meeting_time' = new.total_meeting_time
        /\ working_hours_time' = new.working_hours_time
        /\ after_hours_time' = new.after_hours_time
        /\ IF AnalyzeExcept(AnalyzeOutcome(config, e)) = "exception"
           THEN pc' = "analyze_raised" /\ raised' = TRUE
           ELSE UNCHANGED <<pc, raised>>
    /\ UNCHANGED <<mainVars, runVars, config, events_len, summarizeLocals,
                   result,
                   catVars>>

\* the next event of the list is any event of Events
AnalyzeStep == AnalyzeStepOn(Events)

\* the loop of analyze_week is over: insights, patterns and the result; the
\* loop variable ends with the call
AnalyzeReturn ==
    /\ pc = "analyzing"
    /\ i = events_len
    /\ pc' = "analyzed"
    /\ result' = Analysis(events_len, total_meeting_time, working_hours_time,
                          after_hours_time, daily_stats, category_stats,
                          hourly_distribution)
    /\ event' = NoEvent
    /\ UNCHANGED <<mainVars, runVars, config, events_len, i, analyzeLocals,
                   summarizeLocals, raised, catVars>>

\* summarize_upcoming_week is entered with a list whose length is one of
\* `lengths`, in a frame of its own
SummarizeCallOf(lengths) ==
    /\ pc = "ready"
    /\ \E n \in lengths :
        /\ events_len' = n
        /\ IF n = 0
           THEN pc' = "summarized" /\ result' = EmptySummary
           ELSE pc' = "summarizing" /\ result' = result
    /\ i' = 0
    /\ event' = NoEvent
    /\ LET new == NewSummarizeLocals
       IN /\ daily_schedule' = new.daily_schedule
          /\ key_meetings' = new.key_meetings
    /\ UNCHANGED <<mainVars, runVars, config, analyzeLocals, raised, catVars>>

\* summarize_upcoming_week called with any list of at most MaxEvents events
SummarizeCall == SummarizeCallOf(0..MaxEvents)

\* one pass of the for loop of summarize_upcoming_week over the next event
\* of the list, which is one of `next_events`
SummarizeStepOn(next_events) ==
    /\ pc = "summarizing"
    /\ i < events_len
    /\ \E e \in next_events :
      \E new \in {AfterSummarized(SummarizeLocalsNow, e)} :
        /\ event' = e
        /\ i' = i + 1
        /\ daily_schedule' = new.daily_schedule
        /\ key_meetings' = new.key_meetings
        /\ IF SummarizeExcept(SummarizeOutcome(e)) = "exception"
           THEN pc' = "summarize_raised" /\ raised' = TRUE
           ELSE UNCHANGED <<pc, raised>>
    /\ UNCHANGED <<mainVars, runVars, config, events_len, analyzeLocals,
                   result, catVars>>

\* the next event of the list is any event of Events
SummarizeStep == SummarizeStepOn(Events)

\* the loop of summarize_upcoming_week is over
SummarizeReturn ==
    /\ pc = "summarizing"
    /\ i = events_len
    /\ pc' = "summarized"
    /\ result' = Summary(config, events_len, daily_schedule, key_meetings)
    /\ event' = NoEvent
    /\ UNCHANGED <<mainVars, runVars, config, events_len, i, analyzeLocals,
                   summarizeLocals, raised, catVars>>

\* _categorize_event called on one event; the AttributeError of a
\* configuration without meeting_keywords reaches the caller
CategorizeOn(cat_events) ==
    /\ pc = "ready"
    /\ \E e \in cat_events :
        /\ cat_event' = e
        /\ cat_result' = _categorize_event(config, e)
        /\ IF _categorize_event(config, e).exc
           THEN pc' = "categorize_raised" /\ raised' = TRUE
           ELSE pc' = "categorized" /\ raised' = FALSE
    /\ UNCHANGED <<mainVars, runVars, config, events_len, i, event,
                   analyzeLocals,
                   summarizeLocals, result>>

\* the event categorised is any of CatEvents
Categorize == CategorizeOn(CatEvents)

Next ==
    \/ Construct
    \/ Categorize
    \/ AnalyzeCall
    \/ AnalyzeStep
    \/ AnalyzeReturn
    \/ SummarizeCall
    \/ SummarizeStep
    \/ SummarizeReturn

Spec == Init /\ [][Next]_vars

-----------------------------------------------------------------------------
(* A past week of up to MaxWeekEvents events *)

\* 09:00-10:00 on the first day, title "S", 2 attendees
WeekStandup ==
    Event("confirmed", "default", {"start", "end"}, Timed(0, 9, 0),
          Timed(0, 10, 0), <<"S">>, << >>, 2)

\* 17:00-18:00 on the second day, no title, 4 attendees
WeekLate ==
    Event("confirmed", "default", {"start", "end"}, Timed(1, 17, 0),
          Timed(1, 18, 0), << >>, << >>, 4)

WeekCancelled ==
    Event("cancelled", "default", {"start", "end"}, Timed(0, 9, 0),
          Timed(0, 10, 0), <<"S">>, << >>, 2)

WeekEvents == {WeekStandup, WeekLate, WeekCancelled}

WeekInit == InitWith({Config(FALSE, StandupFirst)}, {<< >>})

WeekAnalyzeCall == AnalyzeCallOf(0..MaxWeekEvents)

WeekAnalyzeStep == AnalyzeStepOn(WeekEvents)

WeekNext ==
    \/ Construct
    \/ WeekAnalyzeCall
    \/ WeekAnalyzeStep
    \/ AnalyzeReturn

WeekSpec == WeekInit /\ [][WeekNext]_vars

-----------------------------------------------------------------------------
(* An upcoming week of up to MaxUpcoming events *)

\* the events of an upcoming week: <<status, start, end, attendee count>>
UpcomingShapes ==
    {<<"confirmed", Timed(0, 9, 0), Timed(0, 10, 0), 5>>,
     <<"confirmed", Timed(0, 9, 0), Timed(0, 10, 30), 2>>,
     <<"confirmed", Timed(0, 17, 0), Timed(0, 18, 0), 6>>,
     <<"confirmed", Timed(1, 9, 0), Timed(1, 10, 30), 6>>,
     <<"cancelled", Timed(1, 9, 0), Timed(1, 10, 30), 6>>}

UpcomingEvents ==
    {Event(u[1], "default", {"start", "end"}, u[2], u[3], <<"S">>, << >>, u[4]) :
        u \in UpcomingShapes}

\* MAX_UPCOMING_EVENTS of the environment
UpcomingLimits == {0, 2, MAX_UPCOMING_EVENTS}

UpcomingConfigs ==
    {[Config(FALSE, StandupFirst) EXCEPT !.max_upcoming_events = n] :
        n \in UpcomingLimits}

UpcomingInit == InitWith(UpcomingConfigs, {<< >>})

UpcomingCall == SummarizeCallOf(0..MaxUpcoming)

UpcomingStep == SummarizeStepOn(UpcomingEvents)

UpcomingNext ==
    \/ Construct
    \/ UpcomingCall
    \/ UpcomingStep
    \/ SummarizeReturn

UpcomingSpec == UpcomingInit /\ [][UpcomingNext]_vars

-----------------------------------------------------------------------------
(* A run that calls the analyzer on the lists it keeps, any number of times *)

RunEvents == {WeekStandup, WeekLate, WeekCancelled}

RunLists == UNION {[1..n -> RunEvents] : n \in 0..MaxRunEvents}

RunInit == InitWith({Config(FALSE, StandupFirst)}, RunLists)

RunAnalyzeCall == AnalyzeCallOf({Len(past_week_events)})

RunAnalyzeStep == AnalyzeStepOn({past_week_events[i + 1]})

RunSummarizeCall == SummarizeCallOf({Len(upcoming_week_events)})

RunSummarizeStep == SummarizeStepOn({upcoming_week_events[i + 1]})

\* _categorize_event on an event of the run, and from then on on that event
RunCategorize ==
    CategorizeOn(IF cat_event = NoEvent THEN RunEvents ELSE {cat_event})

\* the call is over: the run takes what it returned and goes on
Keep ==
    /\ pc \in {"analyzed", "summarized", "categorized"}
    /\ pc' = "ready"
    /\ past_week_analysis' =
          IF pc = "analyzed" THEN result ELSE past_week_analysis
    /\ upcoming_week_summary' =
          IF pc = "summarized" THEN result ELSE upcoming_week_summary
    /\ UNCHANGED <<mainVars, past_week_events, upcoming_week_events, config,
                   events_len, i, event, analyzeLocals, summarizeLocals,
                   result, raised, catVars>>

RunNext ==
    \/ Construct
    \/ RunCategorize
    \/ RunAnalyzeCall
    \/ RunAnalyzeStep
    \/ AnalyzeReturn
    \/ RunSummarizeCall
    \/ RunSummarizeStep
    \/ SummarizeReturn
    \/ Keep

RunSpec == RunInit /\ [][RunNext]_vars

-----------------------------------------------------------------------------
(* Vocabulary of the properties *)

\* the event is one the filters at the top of the loop of analyze_week skip
Skipped(cfg, e) ==
    \/ e.status = "cancelled"
    \/ e.visibility = "private" /\ ~cfg.include_private_events

\* the event has no 'start' field, or one that holds no parseable time
StartUnusable(e) == "start" \notin e.fields \/ ~e.start.ok

\* the for loop of analyze_week reads its next event in this step
AnalyzeReads == pc = "analyzing" /\ i' = i + 1

\* analyze_week returns in this step, `event` being the last event it read
AnalyzeReturns == pc = "analyzing" /\ pc' = "analyzed"

\* the for loop of summarize_upcoming_week reads its next event in this step
SummarizeReads == pc = "summarizing" /\ i' = i + 1

\* summarize_upcoming_week returns in this step, `event` being the last
\* event it read
SummarizeReturns == pc = "summarizing" /\ pc' = "summarized"

\* the indexes of the configured categories with a keyword in the event's text
Matching(cfg, e) ==
    {j \in 1..Len(cfg.meeting_keywords.items) :
        \E n \in 1..Len(cfg.meeting_keywords.items[j].val) :
            IsSubstring(cfg.meeting_keywords.items[j].val[n],
                        text_to_analyze(e))}

FallbackCategories == {"large_meeting", "team_meeting", "small_meeting", "other"}

\* the fields of the result of analyze_week for a list that is not empty
AnalysisFields ==
    {"period", "total_events", "total_meeting_time", "working_hours_time",
     "after_hours_time", "daily_breakdown", "category_breakdown",
     "hourly_distribution", "patterns", "insights"}

-----------------------------------------------------------------------------
(* Properties *)

\* C1: for every event list given to analyze_week, the result's total
\* meeting time equals its working-hours time plus its after-hours time.
C1_TotalIsWorkingPlusAfter ==
    pc = "analyzed" =>
        /\ {"total_meeting_time", "working_hours_time", "after_hours_time"}
               \subseteq DOMAIN result
        /\ result.total_meeting_time =
               result.working_hours_time + result.after_hours_time

\* The equation of C1 on the lists that are not empty, and on the running
\* totals of the loop.
NonEmptyTotalIsSum ==
    /\ total_meeting_time = working_hours_time + after_hours_time
    /\ (pc = "analyzed" /\ events_len > 0) =>
           result.total_meeting_time =
               result.working_hours_time + result.after_hours_time

\* C2: for the empty list analyze_week returns a result with every field a
\* non-empty result has, all counts and durations zero, all mappings and the
\* insight list empty.
C2_EmptyResultFullyPopulated ==
    (pc = "analyzed" /\ events_len = 0) =>
        /\ DOMAIN result = AnalysisFields
        /\ result.total_events = 0
        /\ result.total_meeting_time = 0
        /\ result.working_hours_time = 0
        /\ result.after_hours_time = 0
        /\ result.daily_breakdown = EmptyDict
        /\ result.category_breakdown = EmptyDict
        /\ result.hourly_distribution = EmptyDict
        /\ result.insights = << >>

\* C3: an event whose start is unparseable or missing leaves every aggregate
\* as it was and the loop running, and is not part of the total event count
\* of the result (stated for the last event of the list, under a
\* configuration that has its keyword map).
C3_FaultyEventDropped ==
    /\ [][(AnalyzeReads /\ ~Skipped(config, event') /\ StartUnusable(event'))
             => (UNCHANGED analyzeLocals /\ pc' = "analyzing")]_vars
    /\ [][(AnalyzeReturns /\ config.meeting_keywords.present
              /\ ~Skipped(config, event) /\ StartUnusable(event))
             => result'.total_events < events_len]_vars

\* C4: a cancelled event, and a private one when private events are not
\* included, leaves every aggregate as it was and is not part of the total
\* event count of the result (stated for the last event of the list, under a
\* configuration that has its keyword map).
C4_SkippedEventContributesNothing ==
    /\ [][(AnalyzeReads /\ Skipped(config, event'))
             => (UNCHANGED analyzeLocals /\ pc' = "analyzing")]_vars
    /\ [][(AnalyzeReturns /\ config.meeting_keywords.present
              /\ Skipped(config, event))
             => result'.total_events < events_len]_vars

\* C5: an event gets one category, a configured one or a fallback; when some
\* configured category has a keyword in the lower-cased title and
\* description, it is the first such category in the configured order,
\* whatever the attendee count.
C5_FirstKeywordCategoryWins ==
    pc = "categorized" =>
        LET items == config.meeting_keywords.items
            matching == Matching(config, cat_event)
        IN /\ cat_result.category \in
                  {items[j].key : j \in 1..Len(items)} \cup FallbackCategories
           /\ \A j \in matching :
                  (\A k \in matching : j <= k)
                      => cat_result.category = items[j].key

\* C6: without a keyword match the category follows the attendee count: more
\* than 10 large_meeting, 4..10 team_meeting, 2 small_meeting, 0, 1 and 3
\* other; and each aggregated unmatched event with 4 attendees adds one to the
\* count of team_meeting.
C6_AttendeeFallback ==
    /\ []((pc = "categorized" /\ Matching(config, cat_event) = {}) =>
            LET n == cat_event.attendees IN
            cat_result.category =
                IF n > 10 THEN "large_meeting"
                ELSE IF n \in 4..10 THEN "team_meeting"
                ELSE IF n = 2 THEN "small_meeting"
                ELSE "other")
    /\ [][(AnalyzeReads /\ AnalyzeOutcome(config, event') = "aggregated"
              /\ Matching(config, event') = {} /\ event'.attendees = 4)
             => DictGet(category_stats', "team_meeting", NewCategoryStat).count
                  = DictGet(category_stats, "team_meeting",
                            NewCategoryStat).count + 1]_vars

\* C7: a configuration without a usable keyword map makes the construction
\* of the analyzer raise; no analyzer is ever ready with such a configuration.
C7_KeywordFaultAtConstruction ==
    pc \notin {"new", "construct_raised"} => config.meeting_keywords.present

\* C8: the whole duration of an aggregated event goes to working-hours time
\* when workStartHour <= hour of its start < workEndHour, and to after-hours
\* time otherwise.
C8_BucketByStartHour ==
    [][(AnalyzeReads /\ AnalyzeOutcome(config, event') = "aggregated") =>
          LET hour == event'.start.hour
              duration == total_meeting_time' - total_meeting_time
          IN /\ duration = _calculate_duration(event')
             /\ IF config.working_hours_start <= hour
                   /\ hour < config.working_hours_end
                THEN /\ working_hours_time' = working_hours_time + duration
                     /\ after_hours_time' = after_hours_time
                ELSE /\ after_hours_time' = after_hours_time + duration
                     /\ working_hours_time' = working_hours_time]_vars

\* C9: the duration computed for an aggregated event is never negative, and
\* so no total, working-hours, after-hours, daily or category duration is.
C9_DurationsNeverNegative ==
    /\ (pc = "analyzing" /\ i > 0
          /\ AnalyzeOutcome(config, event) = "aggregated")
         => _calculate_duration(event) >= 0
    /\ total_meeting_time >= 0
    /\ working_hours_time >= 0
    /\ after_hours_time >= 0
    /\ \A j \in 1..Len(daily_stats) : daily_stats[j].val.meeting_time >= 0
    /\ \A j \in 1..Len(category_stats) : category_stats[j].val.total_time >= 0

\* C10: analyze_week and summarize_upcoming_week never leave through an
\* exception, whatever events they are given: the loop goes on after a
\* faulty event and the call returns its result.
C10_NeverRaises ==
    /\ pc \notin {"analyze_raised", "summarize_raised"}
    /\ pc \in {"analyzing", "analyzed", "summarizing", "summarized"}
         => ~raised
    /\ pc \in {"analyzed", "summarized"} => "total_events" \in DOMAIN result

\* C11: an event record with neither 'start' nor 'end' makes analyze_week
\* raise: once the loop has read such an event, one the filters did not skip,
\* the call is no longer running and never returns a result (stated under a
\* configuration that has its keyword map).
C11_MissingPairRaises ==
    (i > 0 /\ event.status = "confirmed" /\ event.visibility = "default"
       /\ event.fields = {} /\ config.meeting_keywords.present)
        => pc \notin {"analyzing", "analyzed"}

\* the notes of an insight list: the load note (heavy or light week), the
\* after-hours percentage, the dominant category, the busiest day, the peak
\* hour
InsightOrder ==
    <<{"heavy_week", "light_week"}, {"after_hours"}, {"top_category"},
      {"busiest_day"}, {"peak_hour"}>>

\* the place of a note in that sequence
InsightRank(note) == CHOOSE k \in 1..Len(InsightOrder) : note \in InsightOrder[k]

\* the notes of the insight list of the result
InsightNotes == {result.insights[j].note : j \in 1..Len(result.insights)}

\* C12: the insight list of a result is an order-preserving sub-list of
\* [load note, after-hours note, dominant-category note, busiest-day note,
\* peak-hour note]: every note is one of these and stands before every note
\* of a later place, so none appears twice.
C12_InsightsInFixedOrder ==
    pc = "analyzed" =>
        /\ InsightNotes \subseteq UNION {InsightOrder[k] : k \in 1..Len(InsightOrder)}
        /\ \A j, k \in 1..Len(result.insights) :
               j < k => InsightRank(result.insights[j].note)
                          < InsightRank(result.insights[k].note)

Pattern(name) == DictGet(result.patterns, name, << >>)

\* position j holds the first of the greatest numbers of a sequence
IsFirstGreatest(numbers, j) ==
    /\ \A k \in 1..Len(numbers) : numbers[k] <= numbers[j]
    /\ \A k \in 1..(j - 1) : numbers[k] < numbers[j]

\* position j holds the first of the least numbers of a sequence
IsFirstLeast(numbers, j) ==
    /\ \A k \in 1..Len(numbers) : numbers[k] >= numbers[j]
    /\ \A k \in 1..(j - 1) : numbers[k] > numbers[j]

\* C14: busiest_day is the first day of the daily breakdown, in insertion
\* order, with the greatest event count, lightest_day the first with the
\* least, and dominant_meeting_type the first category of the category
\* breakdown with the greatest count; the insertion order is that of the
\* first aggregated event of each day and category, and never changes.
C14_PatternsFirstExtremeWins ==
    /\ []((pc = "analyzed" /\ events_len > 0) =>
            LET days == result.daily_breakdown
                types == result.category_breakdown
                events == [j \in 1..Len(days) |-> days[j].val.events]
                counts == [j \in 1..Len(types) |-> types[j].val.count]
            IN /\ \A j \in 1..Len(days) :
                    /\ IsFirstGreatest(events, j)
                         => Pattern("busiest_day") = <<days[j].key, events[j]>>
                    /\ IsFirstLeast(events, j)
                         => Pattern("lightest_day") = <<days[j].key, events[j]>>
               /\ \A j \in 1..Len(types) :
                    IsFirstGreatest(counts, j)
                        => Pattern("dominant_meeting_type") = <<types[j].key>>)
    /\ [][(AnalyzeReads /\ AnalyzeOutcome(config, event') = "aggregated") =>
             /\ \A j \in 1..Len(daily_stats) :
                    daily_stats'[j].key = daily_stats[j].key
             /\ \A j \in 1..Len(category_stats) :
                    category_stats'[j].key = category_stats[j].key
             /\ daily_stats'[Len(daily_stats')].key
                  \in {daily_stats[j].key : j \in 1..Len(daily_stats)}
                        \cup {Weekday(event'.start)}
             /\ category_stats'[Len(category_stats')].key
                  \in {category_stats[j].key : j \in 1..Len(category_stats)}
                        \cup {_categorize_event(config, event').category}]_vars

\* C15: a cancelled event read by summarize_upcoming_week leaves the agenda
\* and the key meetings as they were, and is not part of the total event
\* count of the summary (stated for the last event of the list).
C15_CancelledAddsNothing ==
    /\ [][(SummarizeReads /\ event'.status = "cancelled")
             => (UNCHANGED summarizeLocals /\ pc' = "summarizing")]_vars
    /\ [][(SummarizeReturns /\ event.status = "cancelled")
             => result'.total_events < events_len]_vars

\* C16: an event put on the agenda is appended to the key meetings iff it
\* lasts more than 60 minutes or has more than 5 attendees; its reason is
\* "Long duration" when it lasts more than 60 minutes and "Many attendees"
\* otherwise; an event that is neither leaves the key meetings as they were.
C16_KeyMeetingRule ==
    [][(SummarizeReads /\ SummarizeOutcome(event') = "scheduled") =>
          LET minutes == Instant(_parse_event_time(event', "end"))
                           - Instant(_parse_event_time(event', "start"))
              long == minutes > 60
              many == event'.attendees > 5
          IN IF long \/ many
             THEN /\ Len(key_meetings') = Len(key_meetings) + 1
                  /\ SubSeq(key_meetings', 1, Len(key_meetings)) = key_meetings
                  /\ key_meetings'[Len(key_meetings')].reason =
                        IF long THEN "Long duration" ELSE "Many attendees"
                  /\ key_meetings'[Len(key_meetings')].time =
                        <<event'.start.hour, event'.start.minute>>
             ELSE key_meetings' = key_meetings]_vars

\* C17: the key meetings of the summary are the first max_upcoming_events
\* of the flagged meetings, in the order the loop flagged them: as many as
\* the lesser of the two numbers, entry for entry the flagged ones.
C17_KeyMeetingsTruncatedInOrder ==
    (pc = "summarized" /\ events_len > 0) =>
        LET limit == config.max_upcoming_events
            kept == result.key_meetings
        IN /\ Len(kept) = IF Len(key_meetings) < limit
                           THEN Len(key_meetings) ELSE limit
           /\ \A j \in 1..Len(kept) : kept[j] = key_meetings[j]

AnalyzeWeekOf(cfg, events) ==
    IF events = << >> THEN EmptyAnalysis
    ELSE LET acc[j \in 0..Len(events)] ==
                 IF j = 0
                 THEN [daily_stats |-> EmptyDict,
                       category_stats |-> EmptyDict,
                       hourly_distribution |-> EmptyDict,
                       total_meeting_time |-> 0,
                       working_hours_time |-> 0,
                       after_hours_time |-> 0]
                 ELSE AfterAnalyzed(cfg, acc[j - 1], events[j])
             end == acc[Len(events)]
         IN Analysis(Len(events), end.total_meeting_time,
                     end.working_hours_time, end.after_hours_time,
                     end.daily_stats, end.category_stats,
                     end.hourly_distribution)

\* what summarize_upcoming_week returns for a list, likewise
SummarizeWeekOf(cfg, events) ==
    IF events = << >> THEN EmptySummary
    ELSE LET acc[j \in 0..Len(events)] ==
                 IF j = 0
                 THEN [daily_schedule |-> EmptyDict, key_meetings |-> << >>]
                 ELSE AfterSummarized(acc[j - 1], events[j])
             end == acc[Len(events)]
         IN Summary(cfg, Len(events), end.daily_schedule, end.key_meetings)

\* C19: when analyze_week returns for the list it has returned for before,
\* the result is the one it returned before; _categorize_event called again
\* on the same event gives the same category; and the loop of analyze_week
\* starts with every accumulator empty, whatever the calls before counted.
C19_RepeatedCallsAgree ==
    /\ [][(pc # "analyzed" /\ pc' = "analyzed"
              /\ past_week_analysis # NoResult)
             => result' = past_week_analysis]_vars
    /\ [][(pc = "ready" /\ pc' = "categorized" /\ cat_event' = cat_event)
             => cat_result' = cat_result]_vars
    /\ []((pc = "analyzing" /\ i = 0) =>
            /\ daily_stats = EmptyDict
            /\ category_stats = EmptyDict
            /\ hourly_distribution = EmptyDict
            /\ total_meeting_time = 0
            /\ working_hours_time = 0
            /\ after_hours_time = 0)

SumOf(numbers) ==
    LET S[j \in 0..Len(numbers)] ==
            IF j = 0 THEN 0 ELSE S[j - 1] + numbers[j]
    IN S[Len(numbers)]

\* C27: at every point of analyze_week the event counts of the days, the
\* counts of the categories and the counts of the hours have the same sum,
\* which is at most the number of events read; the category tallies of each
\* day sum to the events of the day; the durations of the days and those of
\* the categories each sum to total_meeting_time; every hour is in 0..23;
\* and the result of a list that is not empty carries these mappings.
C27_AggregatesAgree ==
    LET aggregated == SumOf([j \in 1..Len(daily_stats) |->
                                daily_stats[j].val.events])
    IN /\ aggregated <= i
       /\ SumOf([j \in 1..Len(category_stats) |->
                    category_stats[j].val.count]) = aggregated
       /\ SumOf([j \in 1..Len(hourly_distribution) |->
                    hourly_distribution[j].val]) = aggregated
       /\ \A j \in 1..Len(daily_stats) :
              LET tallies == daily_stats[j].val.categories
              IN SumOf([k \in 1..Len(tallies) |-> tallies[k].val])
                    = daily_stats[j].val.events
       /\ SumOf([j \in 1..Len(daily_stats) |->
                    daily_stats[j].val.meeting_time]) = total_meeting_time
       /\ SumOf([j \in 1..Len(category_stats) |->
                    category_stats[j].val.total_time]) = total_meeting_time
       /\ \A j \in 1..Len(hourly_distribution) :
              hourly_distribution[j].key \in 0..23
       /\ (pc = "analyzed" /\ events_len > 0) =>
              /\ result.daily_breakdown = daily_stats
              /\ result.category_breakdown = category_stats
              /\ result.hourly_distribution = hourly_distribution
              /\ result.total_meeting_time = total_meeting_time

\* the event with its private flag cleared
Public(e) == [e EXCEPT !.visibility = "default"]

\* the configuration with the other setting of private-event inclusion
OtherInclusion(cfg) ==
    [cfg EXCEPT !.include_private_events = ~cfg.include_private_events]

\* C25: under either setting of private-event inclusion, each pass of the
\* loop of summarize_upcoming_week does to the agenda and the key meetings
\* what it does for the same event with its private flag cleared, and the
\* summary returned is the one returned under the other setting; a pass of
\* the loop of analyze_week over a private event, inclusion disabled, leaves
\* every aggregate as it was.
C25_VisibilityIgnoredUpcoming ==
    /\ [][SummarizeReads =>
             LET cleared == AfterSummarized(SummarizeLocalsNow, Public(event'))
             IN /\ daily_schedule' = cleared.daily_schedule
                /\ key_meetings' = cleared.key_meetings
                /\ pc' = "summarizing"]_vars
    /\ [][SummarizeReturns =>
             result' = Summary(OtherInclusion(config), events_len,
                               daily_schedule, key_meetings)]_vars
    /\ [][(AnalyzeReads /\ event'.visibility = "private"
              /\ ~config.include_private_events)
             => UNCHANGED analyzeLocals]_vars

\* the number of entries of all days of an agenda
Entries(schedule) ==
    SumOf([j \in 1..Len(schedule) |-> Len(schedule[j].val)])

\* C26: a pass of the loop of summarize_upcoming_week over an event that is
\* not cancelled and has a parseable start adds one entry to the agenda, at
\* the end of the day labelled with the date of its start, and leaves every
\* other day and the entries already there as they were; a pass over any
\* other event leaves the agenda as it was.
C26_AgendaInInputOrder ==
    [][SummarizeReads =>
          IF event'.status # "cancelled" /\ ~StartUnusable(event')
          THEN LET label == <<WeekdayNames[(event'.start.day % 7) + 1],
                              event'.start.day>>
                   before == DictGet(daily_schedule, label, << >>)
                   after == DictGet(daily_schedule', label, << >>)
               IN /\ Entries(daily_schedule') = Entries(daily_schedule) + 1
                  /\ Len(after) = Len(before) + 1
                  /\ SubSeq(after, 1, Len(before)) = before
                  /\ after[Len(after)].time
                        = <<event'.start.hour, event'.start.minute>>
                  /\ after[Len(after)].attendees_count = event'.attendees
                  /\ \A j \in 1..Len(daily_schedule) :
                        /\ daily_schedule'[j].key = daily_schedule[j].key
                        /\ daily_schedule[j].key # label
                             => daily_schedule'[j] = daily_schedule[j]
          ELSE daily_schedule' = daily_schedule]_vars

-----------------------------------------------------------------------------
(* The configuration main and the reporter read, and the report *)

\* `if not value` of Python false for None and the empty string
Truthy(v) == v \notin {None, ""}

\* str.lower on the values an environment variable of the model takes
LowerValue(v) == IF v \in {"True", "TRUE"} THEN "true" ELSE v

\* os.getenv(name, default)
getenv(env, name, default) == IF env[name] = None THEN default ELSE env[name]

\* Config.__init__: the attributes main and SlackReporter read
EnvConfig(env) ==
    [slack_token |-> env.SLACK_BOT_TOKEN,
     openai_api_key |-> env.OPENAI_API_KEY,
     ai_categorization_enabled |->
         LowerValue(getenv(env, "AI_CATEGORIZATION_ENABLED", "true")) = "true",
     written_summary_enabled |->
         LowerValue(getenv(env, "WRITTEN_SUMMARY_ENABLED", "true")) = "true"]

\* a validate that requires nothing
ValidateNothing(cfg) == TRUE

\* Config.validate: SLACK_BOT_TOKEN is the one required variable
validate(cfg) == Truthy(cfg.slack_token)

\* the test of main for an immediate run
RunImmediately(arguments, env) ==
    \/ arguments.run_now
    \/ LowerValue(getenv(env, "RUN_IMMEDIATELY", "false")) = "true"

\* SlackReporter._format_duration: "{hours}h {minutes}m", or "{minutes}m"
\* when there are no whole hours
_format_duration(duration) ==
    LET hours == duration \div 60
        minutes == duration % 60
    IN IF hours > 0 THEN <<hours, "h", minutes, "m">> ELSE <<minutes, "m">>

\* what a summary function hands back: a text, or an exception that leaves it
Text(parts) == [exc |-> FALSE, text |-> parts]

Raises == [exc |-> TRUE, text |-> << >>]

\* the text the service wrote, whatever it is
AiAnswer == Text(<<"ai">>)

\* SlackReporter._generate_basic_summary
_generate_basic_summary(analysis, upcoming) ==
    LET total_events == analysis.total_events
        total_time == _format_duration(analysis.total_meeting_time)
        upcoming_events == upcoming.total_events
        load_desc == IF total_events >= 20 THEN "a heavy meeting week"
                     ELSE IF total_events >= 10
                     THEN "a moderately busy meeting week"
                     ELSE "a light meeting week"
        category_breakdown == analysis.category_breakdown
        category_insight ==
            IF category_breakdown # EmptyDict
            THEN <<"most common",
                   category_breakdown[FirstMaxIndex(
                       CountOf(category_breakdown))].key>>
            ELSE << >>
    IN IF total_events = 0
       THEN Text(<<"This week was unusually quiet">>)
       ELSE Text(<<"This week you had", load_desc, total_events, total_time,
                   category_insight, upcoming_events>>)

\* the library as the import and the request find it
Libraries == {"not_installed", "raises", "answers"}

\* _generate_written_summary without its except clauses
WrittenSummaryNoExcept(cfg, library, analysis, upcoming) ==
    IF ~Truthy(cfg.openai_api_key)
    THEN _generate_basic_summary(analysis, upcoming)
    ELSE IF ~cfg.ai_categorization_enabled
    THEN _generate_basic_summary(analysis, upcoming)
    ELSE IF library = "not_installed" THEN Raises
    ELSE IF "working_hours_time" \notin DOMAIN analysis THEN Raises
    ELSE IF library = "raises" THEN Raises
    ELSE AiAnswer

\* SlackReporter._generate_written_summary: the basic summary without a key
\* or with AI switched off; otherwise the import, the reads of the analysis
\* and the request, any exception of which gives the basic summary
_generate_written_summary(cfg, library, analysis, upcoming) ==
    IF ~Truthy(cfg.openai_api_key)
    THEN _generate_basic_summary(analysis, upcoming)
    ELSE IF ~cfg.ai_categorization_enabled
    THEN _generate_basic_summary(analysis, upcoming)
    ELSE IF library = "not_installed"
    THEN _generate_basic_summary(analysis, upcoming)
    ELSE IF "working_hours_time" \notin DOMAIN analysis
    THEN _generate_basic_summary(analysis, upcoming)
    ELSE IF library = "raises"
    THEN _generate_basic_summary(analysis, upcoming)
    ELSE AiAnswer

\* len(meetings) of each day of the agenda, in its order
MeetingsOf(schedule) == [j \in 1..Len(schedule) |-> Len(schedule[j].val)]

\* SlackReporter._generate_basic_upcoming_summary
_generate_basic_upcoming_summary(upcoming) ==
    LET total_events == upcoming.total_events
        schedule == upcoming.daily_schedule
        focus_opportunities == upcoming.focus_opportunities
        load_desc == IF total_events >= 20 THEN "a packed week"
                     ELSE IF total_events >= 10 THEN "a busy week"
                     ELSE "a manageable week"
        busiest_day ==
            IF schedule # EmptyDict
            THEN LET j == FirstMaxIndex(MeetingsOf(schedule))
                 IN <<schedule[j].key[1], Len(schedule[j].val)>>
            ELSE << >>
        focus_note == IF focus_opportunities # << >>
                      THEN <<Len(focus_opportunities)>> ELSE << >>
    IN IF total_events = 0
       THEN Text(<<"Looking ahead, you have a completely open week">>)
       ELSE Text(<<"Looking ahead, you have", load_desc, total_events,
                   busiest_day, focus_note>>)

\* SlackReporter._generate_upcoming_ai_summary
_generate_upcoming_ai_summary(cfg, library, upcoming) ==
    IF ~Truthy(cfg.openai_api_key) \/ ~cfg.ai_categorization_enabled
    THEN _generate_basic_upcoming_summary(upcoming)
    ELSE IF library # "answers"
    THEN _generate_basic_upcoming_summary(upcoming)
    ELSE AiAnswer

\* a section function hands back its blocks, or an exception leaves it
Blocks(blocks) == [exc |-> FALSE, blocks |-> blocks]

KeyError == [exc |-> TRUE, blocks |-> << >>]

Block(type, text) == [type |-> type, text |-> text]

\* SlackReporter._create_past_week_section: the overview reads
\* working_hours_time, after_hours_time and period by subscript
_create_past_week_section(analysis) ==
    IF ~({"total_meeting_time", "working_hours_time", "after_hours_time",
          "period", "total_events"} \subseteq DOMAIN analysis)
    THEN KeyError
    ELSE LET daily == analysis.daily_breakdown
             categories == analysis.category_breakdown
             overview ==
                 <<Block("overview",
                         <<analysis.period, analysis.total_events,
                           _format_duration(analysis.total_meeting_time),
                           _format_duration(analysis.working_hours_time),
                           _format_duration(analysis.after_hours_time)>>)>>
             daily_text ==
                 [j \in 1..Len(daily) |->
                     <<daily[j].key, daily[j].val.events,
                       _format_duration(daily[j].val.meeting_time)>>]
             category_text ==
                 [j \in 1..Len(categories) |->
                     <<categories[j].key, categories[j].val.count,
                       _format_duration(categories[j].val.total_time)>>]
         IN Blocks(<<Block("header", <<"Past Week Analysis">>)>>
                   \o overview
                   \o (IF daily # EmptyDict
                       THEN <<Block("daily", daily_text)>> ELSE << >>)
                   \o (IF categories # EmptyDict
                       THEN <<Block("categories", category_text)>>
                       ELSE << >>)
                   \o (IF analysis.insights # << >>
                       THEN <<Block("insights", analysis.insights)>>
                       ELSE << >>))

\* SlackReporter._create_upcoming_week_section: config has no
\* upcoming_ai_summary_enabled, so getattr gives True; the overview reads
\* period by subscript
_create_upcoming_week_section(cfg, library, upcoming) ==
    LET ai_summary == _generate_upcoming_ai_summary(cfg, library, upcoming)
    IN IF "period" \notin DOMAIN upcoming
       THEN KeyError
       ELSE LET schedule == upcoming.daily_schedule
                daily_counts ==
                    [j \in 1..Len(schedule) |->
                        <<schedule[j].key[1], Len(schedule[j].val)>>]
                brief == <<Prefix(daily_counts, 5),
                           IF Len(daily_counts) > 5
                           THEN Len(daily_counts) - 5 ELSE 0>>
            IN Blocks(<<Block("header", <<"Upcoming Week Preview">>),
                        Block("ahead", ai_summary.text)>>
                      \o <<Block("overview",
                                 <<upcoming.period, upcoming.total_events>>)>>
                      \o (IF schedule # EmptyDict
                          THEN <<Block("daily", brief)>> ELSE << >>)
                      \o (IF upcoming.key_meetings # << >>
                          THEN <<Block("key_meetings",
                                       Prefix(upcoming.key_meetings, 5))>>
                          ELSE << >>)
                      \o (IF upcoming.focus_opportunities # << >>
                          THEN <<Block("focus",
                                       upcoming.focus_opportunities)>>
                          ELSE << >>))

\* SlackReporter.generate_weekly_report: the title, the written summary when
\* enabled, the two sections and the footer; an exception of a part leaves
\* the function
generate_weekly_report(cfg, library, analysis, upcoming) ==
    LET summary == IF cfg.written_summary_enabled
                   THEN _generate_written_summary(cfg, library, analysis,
                                                  upcoming)
                   ELSE Text(<< >>)
        past == _create_past_week_section(analysis)
        ahead == _create_upcoming_week_section(cfg, library, upcoming)
    IN IF summary.exc \/ past.exc \/ ahead.exc
       THEN KeyError
       ELSE Blocks(<<Block("title", <<"Weekly Calendar Report">>)>>
                   \o (IF cfg.written_summary_enabled
                       THEN <<Block("summary", summary.text)>> ELSE << >>)
                   \o past.blocks
                   \o ahead.blocks
                   \o <<Block("footer", <<"Report generated">>)>>)

-----------------------------------------------------------------------------
(* The process: main, the scheduler loop and the run functions *)

MaxRuns == 2

live == "run_weekly_analysis"

test == "run_weekly_analysis_test_mode"

\* the function main calls for an immediate run
ImmediateJob(arguments) == IF arguments.test_only THEN test ELSE live

\* the function main registers with schedule for Mondays at 09:00
ScheduledJob(arguments) == live

\* an except clause that raises again, whatever the function
ExceptClauseRaise(f) == "raise"

\* the except clause of a run function: run_weekly_analysis sends an error
\* notification and returns, the test mode logs and raises again
ExceptClause(f) == IF f = live THEN "notify" ELSE "raise"

\* CalendarAnalyzer.get_events: the items of the calendar, or the empty
\* list when the request raised
get_events(ok, items) == IF ok THEN items ELSE << >>

\* the weeks the calendar may hold
MainLists ==
    {<< >>, <<WeekStandup>>, <<WeekCancelled>>, <<WeekLate, WeekStandup>>}

\* a message as Slack received it, with the run that posted it
Message(kind) == [kind |-> kind, run |-> runs]

analyzerVars ==
    <<pc, config, events_len, i, event, analyzeLocals, summarizeLocals,
      result, raised, catVars>>

processVars == <<args, environ, openai>>

\* the process starts main with any command line and environment
MainInit ==
    /\ AnalyzerInit({Config(FALSE, StandupFirst)}, {<< >>})
    /\ args \in [run_now : BOOLEAN, test_only : BOOLEAN]
    /\ environ \in [SLACK_BOT_TOKEN : {None, "", "xoxb"},
                    RUN_IMMEDIATELY : {None, "True", "false"},
                    OPENAI_API_KEY : {None, "sk"},
                    AI_CATEGORIZATION_ENABLED : {None, "false"},
                    WRITTEN_SUMMARY_ENABLED : {None, "false"}]
    /\ openai \in Libraries
    /\ main_pc = "start"
    /\ jobs = {}
    /\ runs = 0
    /\ slack = << >>
    /\ NoRun

\* main up to its loop: return when validation fails, go to the immediate
\* run when asked for, else register the job and enter the loop
MainStart ==
    /\ main_pc = "start"
    /\ IF ~validate(EnvConfig(environ))
       THEN main_pc' = "returned" /\ UNCHANGED jobs
       ELSE IF RunImmediately(args, environ)
       THEN main_pc' = "immediate" /\ UNCHANGED jobs
       ELSE main_pc' = "loop" /\ jobs' = {ScheduledJob(args)}
    /\ UNCHANGED <<analyzerVars, runVars, processVars, run_pc, job, runs,
                   slack, report, caught, notified>>

\* a run function is entered
Enter(f) ==
    /\ run_pc = "idle"
    /\ run_pc' = "started"
    /\ job' = f
    /\ runs' = runs + 1
    /\ UNCHANGED <<analyzerVars, runVars, processVars, jobs, slack, report,
                   caught, notified>>

\* the immediate run of main
RunNow ==
    /\ main_pc = "immediate"
    /\ main_pc' = "running"
    /\ Enter(ImmediateJob(args))

\* schedule.run_pending when a job is due
RunPending ==
    /\ main_pc = "loop"
    /\ runs < MaxRuns
    /\ UNCHANGED main_pc
    /\ \E f \in jobs : Enter(f)

\* Ctrl+C while the loop sleeps
Interrupt ==
    /\ main_pc = "loop"
    /\ run_pc = "idle"
    /\ main_pc' = "returned"
    /\ UNCHANGED <<analyzerVars, runVars, processVars, run_pc, job, jobs,
                   runs, slack, report, caught, notified>>

\* Config(), CalendarAnalyzer(config), SlackReporter(config): the analyzer
\* authenticates and may raise
Authenticate ==
    /\ run_pc = "started"
    /\ \E auth_ok \in BOOLEAN :
        IF auth_ok
        THEN /\ pc' = "ready" /\ raised' = FALSE
             /\ run_pc' = "authenticated" /\ UNCHANGED caught
        ELSE /\ pc' = "construct_raised" /\ raised' = TRUE
             /\ run_pc' = "except" /\ caught' = "authentication"
    /\ UNCHANGED <<config, events_len, i, event, analyzeLocals,
                   summarizeLocals, result, catVars, runVars, processVars,
                   main_pc, job, jobs, runs, slack, report, notified>>

\* past_week_events = calendar_analyzer.get_events(last_monday, last_sunday)
GetPastEvents ==
    /\ run_pc = "authenticated"
    /\ run_pc' = "past_fetched"
    /\ \E ok \in BOOLEAN, items \in MainLists :
           past_week_events' = get_events(ok, items)
    /\ UNCHANGED <<analyzerVars, upcoming_week_events, past_week_analysis,
                   upcoming_week_summary, processVars, main_pc, job, jobs,
                   runs, slack, report, caught, notified>>

\* past_week_analysis = calendar_analyzer.analyze_week(past_week_events, ..)
AnalyzePast ==
    /\ run_pc = "past_fetched"
    /\ run_pc' = "past_analyzed"
    /\ past_week_analysis' = AnalyzeWeekOf(config, past_week_events)
    /\ UNCHANGED <<analyzerVars, past_week_events, upcoming_week_events,
                   upcoming_week_summary, processVars, main_pc, job, jobs,
                   runs, slack, report, caught, notified>>

\* upcoming_week_events = calendar_analyzer.get_events(this_monday, ..)
GetUpcomingEvents ==
    /\ run_pc = "past_analyzed"
    /\ run_pc' = "upcoming_fetched"
    /\ \E ok \in BOOLEAN, items \in MainLists :
           upcoming_week_events' = get_events(ok, items)
    /\ UNCHANGED <<analyzerVars, past_week_events, past_week_analysis,
                   upcoming_week_summary, processVars, main_pc, job, jobs,
                   runs, slack, report, caught, notified>>

\* upcoming_week_summary = calendar_analyzer.summarize_upcoming_week(..)
SummarizeUpcoming ==
    /\ run_pc = "upcoming_fetched"
    /\ run_pc' = "upcoming_summarized"
    /\ upcoming_week_summary' = SummarizeWeekOf(config, upcoming_week_events)
    /\ UNCHANGED <<analyzerVars, past_week_events, upcoming_week_events,
                   past_week_analysis, processVars, main_pc, job, jobs,
                   runs, slack, report, caught, notified>>

\* report = slack_reporter.generate_weekly_report(past_week_analysis,
\* upcoming_week_summary)
GenerateReport ==
    /\ run_pc = "upcoming_summarized"
    /\ \E new \in {generate_weekly_report(EnvConfig(environ), openai,
                                          past_week_analysis,
                                          upcoming_week_summary)} :
        IF new.exc
        THEN /\ run_pc' = "except" /\ caught' = "report generation"
             /\ UNCHANGED report
        ELSE /\ run_pc' = "reported" /\ report' = new
             /\ UNCHANGED caught
    /\ UNCHANGED <<analyzerVars, runVars, processVars, main_pc, job, jobs,
                   runs, slack, notified>>

\* slack_reporter.send_report(report) of run_weekly_analysis: one
\* chat_postMessage, whose exception send_report raises again
SendReport ==
    /\ run_pc = "reported"
    /\ job = live
    /\ \E post_ok \in BOOLEAN :
        IF post_ok
        THEN /\ slack' = Append(slack, Message("report"))
             /\ run_pc' = "returning" /\ UNCHANGED caught
        ELSE /\ run_pc' = "except" /\ caught' = "sending"
             /\ UNCHANGED slack
    /\ UNCHANGED <<analyzerVars, runVars, processVars, main_pc, job, jobs,
                   runs, report, notified>>

\* the prints of the test mode in place of send_report: the written
\* summary once more, and both periods read by subscript
PrintResults ==
    /\ run_pc = "reported"
    /\ job = test
    /\ IF /\ "period" \in DOMAIN past_week_analysis
          /\ "period" \in DOMAIN upcoming_week_summary
       THEN run_pc' = "returning" /\ UNCHANGED caught
       ELSE run_pc' = "except" /\ caught' = "printing"
    /\ UNCHANGED <<analyzerVars, runVars, processVars, main_pc, job, jobs,
                   runs, slack, report, notified>>

\* the except clause of run_weekly_analysis: a new reporter sends the error
\* notification; send_error_notification swallows the exception of its
\* chat_postMessage, and the clause swallows any other
Notify ==
    /\ run_pc = "except"
    /\ ExceptClause(job) = "notify"
    /\ run_pc' = "returning"
    /\ notified' = notified + 1
    /\ \E post_ok \in BOOLEAN :
           slack' = IF post_ok THEN Append(slack, Message("error")) ELSE slack
    /\ UNCHANGED <<analyzerVars, runVars, processVars, main_pc, job, jobs,
                   runs, report, caught>>

\* the except clause of run_weekly_analysis_test_mode: log and raise
Reraise ==
    /\ run_pc = "except"
    /\ ExceptClause(job) = "raise"
    /\ run_pc' = "propagating"
    /\ UNCHANGED <<analyzerVars, runVars, processVars, main_pc, job, jobs,
                   runs, slack, report, caught, notified>>

\* the run function is left and its locals are gone.  The immediate run of
\* main catches an exception and returns either way; the loop goes on after
\* a return and has no handler for an exception of the job
RunReturn ==
    /\ run_pc \in {"returning", "propagating"}
    /\ run_pc' = "idle"
    /\ main_pc' = IF main_pc = "running" THEN "returned"
                  ELSE IF run_pc = "propagating" THEN "crashed"
                  ELSE main_pc
    /\ job' = None
    /\ report' = NoReport
    /\ caught' = None
    /\ notified' = 0
    /\ pc' = "new"
    /\ raised' = FALSE
    /\ past_week_events' = << >>
    /\ upcoming_week_events' = << >>
    /\ past_week_analysis' = NoResult
    /\ upcoming_week_summary' = NoResult
    /\ UNCHANGED <<config, events_len, i, event, analyzeLocals,
                   summarizeLocals, result, catVars, processVars, jobs, runs,
                   slack>>

MainNext ==
    \/ MainStart
    \/ RunNow
    \/ RunPending
    \/ Interrupt
    \/ Authenticate
    \/ GetPastEvents
    \/ AnalyzePast
    \/ GetUpcomingEvents
    \/ SummarizeUpcoming
    \/ GenerateReport
    \/ SendReport
    \/ PrintResults
    \/ Notify
    \/ Reraise
    \/ RunReturn

MainSpec == MainInit /\ [][MainNext]_vars

-----------------------------------------------------------------------------
(* Properties of the process *)

\* the configuration of the process as Config() reads it
settings == EnvConfig(environ)

\* the summarizer cannot be used: no key, AI switched off, the library
\* missing, or the request raising
SummarizerUnavailable ==
    \/ ~Truthy(settings.openai_api_key)
    \/ ~settings.ai_categorization_enabled
    \/ openai \in {"not_installed", "raises"}

\* the run function is about to generate the report
Generates == run_pc = "upcoming_summarized"

\* C21: with the summarizer unavailable, a report that is generated with the
\* written summary enabled carries, right after its title, the basic summary
\* of the analysis and the upcoming summary the run holds, and report
\* generation raises only when one of the two weeks is empty, never because
\* of the summarizer.
C21_BasicSummaryFallback ==
    [][Generates /\ SummarizerUnavailable =>
          /\ run_pc' \in {"reported", "except"}
          /\ run_pc' = "reported" /\ settings.written_summary_enabled
                => report'.blocks[2]
                     = Block("summary",
                             _generate_basic_summary(
                                 past_week_analysis,
                                 upcoming_week_summary).text)
          /\ run_pc' = "except"
                => \/ past_week_events = << >>
                   \/ upcoming_week_events = << >>]_vars

\* C22: started with --test-only, the process posts nothing to Slack.
C22_TestOnlySendsNothing == args.test_only => slack = << >>

\* C28: run_weekly_analysis with an empty past week and a non-empty upcoming
\* week generates the report and goes on to send_report.
C28_EmptyPastWeekReported ==
    [][/\ Generates
       /\ job = live
       /\ past_week_events = << >>
       /\ upcoming_week_events # << >>
       => run_pc' = "reported"]_vars

\* the messages of a kind the running run has posted
Posted(kind) ==
    {j \in 1..Len(slack) : slack[j] = [kind |-> kind, run |-> runs]}

\* C29: run_weekly_analysis never lets an exception out; once it has caught
\* one, no weekly report of that run is in Slack, and it returns after
\* exactly one call of send_error_notification, which posted at most one
\* error message; while a run is under way main stays in its loop, and in
\* the loop the job stays registered.
C29_FailureContained ==
    /\ [](job = live => run_pc # "propagating")
    /\ [](caught # None => Posted("report") = {})
    /\ [](job = live => /\ notified <= 1
                         /\ Cardinality(Posted("error")) <= notified)
    /\ [][job = live /\ caught # None /\ run_pc' = "idle" => notified = 1]_vars
    /\ [][main_pc = "loop" /\ run_pc # "idle" => main_pc' = "loop"]_vars
    /\ [](main_pc = "loop" => jobs = {live})

\* C30: without a Slack bot token main is at its start or has returned: no
\* analyzer was constructed, no run was started, nothing was fetched or
\* analysed, nothing was posted and no job is registered.
C30_InvalidConfigDoesNothing ==
    ~Truthy(environ.SLACK_BOT_TOKEN) =>
        /\ main_pc \in {"start", "returned"}
        /\ pc = "new"
        /\ runs = 0
        /\ run_pc = "idle"
        /\ past_week_events = << >>
        /\ upcoming_week_events = << >>
        /\ past_week_analysis = NoResult
        /\ upcoming_week_summary = NoResult
        /\ slack = << >>
        /\ jobs = {}

-----------------------------------------------------------------------------
(* Reachable cases *)

\* two configured categories match an event with more than 10 attendees, and
\* the one configured first is returned
C5_Witness ==
    /\ pc = "categorized"
    /\ Cardinality(Matching(config, cat_event)) = 2
    /\ cat_event.attendees > 10
    /\ config.meeting_keywords = ReviewFirst
    /\ cat_result.category = "review"

\* two unmatched events with 4 attendees have been aggregated
C6_Witness ==
    /\ pc = "analyzed"
    /\ events_len = 2
    /\ DictGet(result.category_breakdown, "team_meeting",
               NewCategoryStat).count = 2

\* an hour from 09:00 went to working hours, then an hour from 17:00 to
\* after hours
C8_Witness ==
    /\ pc = "analyzing"
    /\ i = 2
    /\ event.start = Timed(1, 17, 0)
    /\ AnalyzeOutcome(config, event) = "aggregated"
    /\ working_hours_time = 60
    /\ after_hours_time = 60

\* analyze_week has read, after an event it aggregated, an event without a
\* usable start and is still running
C10_Witness ==
    /\ pc = "analyzing"
    /\ i >= 2
    /\ ~Skipped(config, event)
    /\ StartUnusable(event)
    /\ daily_stats # EmptyDict
    /\ ~raised

\* a week of 26 events with every one of the five notes
C12_Witness ==
    /\ pc = "analyzed"
    /\ Len(result.insights) = 5
    /\ result.insights[1].note = "heavy_week"
    /\ result.insights[4].note = "busiest_day"

C14_Witness ==
    /\ pc = "analyzed"
    /\ Len(result.daily_breakdown) = 2
    /\ result.daily_breakdown[1].val.events = 2
    /\ result.daily_breakdown[2].val.events = 2
    /\ result.daily_breakdown[1].key = "Tuesday"
    /\ Pattern("busiest_day") = <<"Tuesday", 2>>
    /\ Pattern("lightest_day") = <<"Tuesday", 2>>
    /\ Pattern("dominant_meeting_type") = <<"team_meeting">>

\* an hour with 5 attendees was not flagged, then an hour with 6 attendees
\* was flagged for its attendees, then 90 minutes with 6 attendees for the
\* duration
C16_Witness ==
    /\ pc = "summarizing"
    /\ i = 3
    /\ Len(daily_schedule) = 2
    /\ Len(key_meetings) = 2
    /\ key_meetings[1].reason = "Many attendees"
    /\ key_meetings[2].reason = "Long duration"
    /\ event.attendees = 6

\* three meetings were flagged and the limit is 2: the first two are kept
C17_Witness ==
    /\ pc = "summarized"
    /\ config.max_upcoming_events = 2
    /\ Len(key_meetings) = 3
    /\ key_meetings[1].reason = "Many attendees"
    /\ key_meetings[3].reason = "Many attendees"
    /\ result.key_meetings = <<key_meetings[1], key_meetings[2]>>

C19_Witness ==
    /\ pc = "analyzed"
    /\ past_week_analysis # NoResult
    /\ result = past_week_analysis
    /\ result.total_meeting_time = 120
    /\ Len(result.daily_breakdown) = 2

C27_Witness ==
    /\ pc = "analyzing"
    /\ i = 2
    /\ Len(daily_stats) = 2
    /\ Len(category_stats) = 2
    /\ Len(hourly_distribution) = 2
    /\ total_meeting_time # 0

\* with private events excluded, a private event is on the agenda of the
\* upcoming week
C25_Witness ==
    /\ pc = "summarizing"
    /\ i = 1
    /\ ~config.include_private_events
    /\ event.visibility = "private"
    /\ Len(daily_schedule) = 1
    /\ Len(daily_schedule[1].val) = 1

\* two events of one day are on the agenda of that day in the order the
\* loop read them
C26_Witness ==
    /\ pc = "summarizing"
    /\ i = 2
    /\ Len(daily_schedule) = 1
    /\ Len(daily_schedule[1].val) = 2
    /\ daily_schedule[1].val[1].attendees_count = 4
    /\ daily_schedule[1].val[2].attendees_count = 2
    /\ event.attendees = 2

\* the request raised with a key set and AI on, and the report of a week of
\* two meetings carries the basic summary
C21_Witness ==
    /\ run_pc = "reported"
    /\ Truthy(settings.openai_api_key)
    /\ settings.ai_categorization_enabled
    /\ settings.written_summary_enabled
    /\ openai = "raises"
    /\ past_week_analysis.total_events = 2
    /\ report.blocks[2].type = "summary"
    /\ report.blocks[2].text[1] = "This week you had"

\* a second scheduled run has started after the first failed and its error
\* notification was posted
C29_Witness ==
    /\ main_pc = "loop"
    /\ runs = 2
    /\ run_pc = "started"
    /\ slack = <<[kind |-> "error", run |-> 1]>>

\* main has returned without a token although an immediate run was asked for
\* on the command line and in the environment
C30_Witness ==
    /\ main_pc = "returned"
    /\ environ.SLACK_BOT_TOKEN = ""
    /\ args.run_now
    /\ args.test_only
    /\ environ.RUN_IMMEDIATELY = "True"
    /\ runs = 0

====
